---- MODULE Spec2Model ----
(***************************************************************************)
(* ConfigBus register-access client of SatCat5 (satcat5_cfgbus.py): one    *)
(* session object shared by concurrent callers, a transport that delivers  *)
(* reply frames to the session's receive callback from its own thread, and *)
(* a remote ConfigBus host.  Frames are byte sequences, laid out as the    *)
(* struct.pack calls of the source lay them out.                           *)
(***************************************************************************)
EXTENDS Integers, Sequences, FiniteSets, TLC

(* ------------------------------ bounds -------------------------------- *)
\* Commands transmitted on the session in one behaviour.
MaxCmds == 2

\* Longest byte string handed to the SLIP codec, and the bytes it is made of:
\* END, ESC, the two escape codes, and an ordinary byte.
MaxLen == 3
SlipBytes == {192, 219, 220, 221, 1}

\* Frames handed to a SLIP port in one behaviour.
MaxFrames == 2

\* Longest payload handed to slipEncodeFCS (padding is to 60 bytes).
MaxPayload == 61

\* Longest data part of a frame whose bytes are changed one at a time.
MaxCrcData == 15

\* Longest byte stream that arrives at the serial port, the bytes it is made
\* of (END and two ordinary bytes), and the exceptions raised by the
\* callback in one behaviour.
MaxStream == 4
StreamBytes == {192, 1, 2}
MaxRaises == 1

\* Calls of msg_send on a serial port in one behaviour.
MaxSends == 3

\* Caller threads.
Callers == {"t1", "t2"}

\* Argument values the callers draw from.
DevAddrs  == {1}
RegAddrs  == {2}
WrVals    == {1}
MultiVals == {<<1, 2>>}
NWordsSet == {2}
WriteIncr == {FALSE}
ReadIncr  == {FALSE}
\* Values the host holds in its registers, status bytes it reports, and the
\* number of trailing bytes a malformed reply lacks.
RdWords   == {16909060}
Statuses  == {0, 1}
Cuts      == {0, 1}

(* --------------------------- program constants ------------------------ *)
OPCODE_WR_RPT == 47
OPCODE_WR_INC == 63
OPCODE_RD_RPT == 64
OPCODE_RD_INC == 80
ethertype     == 23553
SeqMod        == 256
MinFrameLen   == 20
MinReadLen    == 13
mac_addr      == <<1, 35, 69, 103, 137, 171>>

NoId == 0
\* Python's None in the reply slot; no thread as the holder of the lock.
None == [id |-> NoId, data |-> <<>>]
NoOne == "nobody"

VARIABLES
    fastwr,     \* self.fastwr
    read,       \* self.read
    lock,       \* ConfigBus.lock: the caller holding it, or NoOne
    seq,        \* self.seq
    reply,      \* self.reply: None or the stored reply (tagged with its command)
    pc,         \* position of each caller inside its call
    call,       \* arguments and command frame of each caller's current call
    ret,        \* the most recent return on the session, until its caller calls again
    net,        \* reply frames in flight from the host to the transport
    cmds,       \* the commands transmitted so far, in order, and how each ended
    rx,         \* outcome of the last invocation of the receive callback
    other,      \* a caller of a second ConfigBus object (its own seq, the class's lock)
    slip,       \* slipEncode / slipDecode applied to a byte string
    port,       \* an AsyncSLIPPort: its flags and what it handed to its callback
    host,       \* the ConfigBus host at the far end: what it received and holds
    uart        \* an AsyncSerialPort: its buffers, its threads and the wire

bus  == <<fastwr, read, lock, seq, reply, pc, call, ret, net, cmds, rx>>
vars == <<fastwr, read, lock, seq, reply, pc, call, ret, net, cmds, rx, other, slip, port,
          host, uart>>

(* ------------------------------ byte helpers --------------------------- *)
Min(a, b) == IF a < b THEN a ELSE b

\* Python slice s[a:b] of a byte string (0-based, clipped to the length).
Slice(s, a, b) == SubSeq(s, a + 1, Min(b, Len(s)))

\* struct.pack('>H', v) and struct.pack('>L', v)
PackH(v) == <<(v \div 256) % 256, v % 256>>
PackL(v) == <<(v \div 16777216) % 256, (v \div 65536) % 256, (v \div 256) % 256, v % 256>>

\* struct.unpack('>L', b) of exactly four bytes
UnpackL(b) == ((b[1] * 256 + b[2]) * 256 + b[3]) * 256 + b[4]

RECURSIVE PackWords(_)
PackWords(ws) == IF ws = <<>> THEN <<>> ELSE PackL(Head(ws)) \o PackWords(Tail(ws))

RECURSIVE UnpackWords(_)
UnpackWords(b) ==
    IF Len(b) < 4 THEN <<>> ELSE <<UnpackL(SubSeq(b, 1, 4))>> \o UnpackWords(SubSeq(b, 5, Len(b)))

(* ------------------------------ the session ---------------------------- *)
etype_cmd == PackH(ethertype)
etype_ack == PackH(ethertype + 1)
ethhdr    == mac_addr \o mac_addr \o etype_cmd

IsWrite(op) == op \in {"write_reg", "multi_write"}

\* The calls a caller can make.
CallArgs ==
    [op : {"write_reg"}, dev : DevAddrs, reg : RegAddrs,
     vals : {<<v>> : v \in WrVals}, nwords : {1}, incr : {FALSE}, frm : {<<>>}, id : {NoId}, seq0 : {0}]
    \cup
    [op : {"multi_write"}, dev : DevAddrs, reg : RegAddrs,
     vals : MultiVals, nwords : {2}, incr : WriteIncr, frm : {<<>>}, id : {NoId}, seq0 : {0}]
    \cup
    [op : {"read_reg"}, dev : DevAddrs, reg : RegAddrs,
     vals : {<<>>}, nwords : {1}, incr : {FALSE}, frm : {<<>>}, id : {NoId}, seq0 : {0}]
    \cup
    [op : {"multi_read"}, dev : DevAddrs, reg : RegAddrs,
     vals : {<<>>}, nwords : NWordsSet, incr : ReadIncr, frm : {<<>>}, id : {NoId}, seq0 : {0}]

\* The opcode each operation puts in its command.
Opcode(a) ==
    CASE a.op = "write_reg"   -> OPCODE_WR_RPT
      [] a.op = "multi_write" -> IF a.incr THEN OPCODE_WR_INC ELSE OPCODE_WR_RPT
      [] a.op = "read_reg"    -> OPCODE_RD_RPT
      [] a.op = "multi_read"  -> IF a.incr THEN OPCODE_RD_INC ELSE OPCODE_RD_RPT

\* The number of words itself in the word-count byte.
FlgCount(a) == IF a.op = "multi_write" THEN Len(a.vals) ELSE a.nwords

\* Number of words minus one, as each operation computes it.
Flg(a) == IF a.op = "multi_write" THEN Len(a.vals) - 1 ELSE a.nwords - 1

\* The command with its combined address formed with 1023 for 1024.
CommandShortStride(a, s) ==
    <<Opcode(a), Flg(a), s, 0>> \o PackL(1023 * a.dev + a.reg) \o PackWords(a.vals)

\* The command packed by write_reg, multi_write, read_reg, multi_read.
Command(a, s) ==
    <<Opcode(a), Flg(a), s, 0>> \o PackL(1024 * a.dev + a.reg) \o PackWords(a.vals)

NoRx   == [id |-> NoId, verdict |-> "none"]

\* A second ConfigBus object, constructed and not yet used (seq = 0), and
\* the thread that will call it.
OtherCaller == "u1"
NoOther == [pc |-> "idle", seq |-> 0]

\* No byte string handed to the SLIP codec yet; no SLIP port opened.
NoSlip == [stage |-> "none", data |-> <<>>, slip_frm |-> <<>>, eth_frm |-> <<>>]
NoPort == [open |-> FALSE]

\* A host that has received nothing; no serial port opened.
NoHost == [rcvd |-> 0]
NoUart == [open |-> FALSE]

NoCall == [op |-> "none"]
NoRet  == [by |-> NoOne, op |-> "none", nwords |-> 0, kind |-> "none", val |-> <<>>,
           id |-> NoId, took |-> None, seq0 |-> 0, seq1 |-> 0, waited |-> FALSE]

TypeOK ==
    /\ fastwr \in BOOLEAN /\ read \in BOOLEAN
    /\ lock \in Callers \cup {NoOne, OtherCaller}
    /\ seq \in 0..(SeqMod - 1)
    /\ pc \in [Callers -> {"idle", "acquire", "clear", "xmit", "sent", "waiting", "woken"}]
    /\ Len(cmds) \in 0..MaxCmds

\* __init__ with self.fastwr = fastwrite, whatever readable is.
BusInitUnforced ==
    /\ \E fastwrite \in BOOLEAN, readable \in BOOLEAN :
          /\ fastwr = fastwrite
          /\ read = readable
    /\ lock = NoOne
    /\ seq = 0
    /\ reply = None
    /\ pc = [c \in Callers |-> "idle"]
    /\ call = [c \in Callers |-> NoCall]
    /\ ret = NoRet
    /\ net = {}
    /\ cmds = <<>>
    /\ rx = NoRx

\* A ConfigBus object after __init__, no call made yet.
BusInit ==
    /\ \E fastwrite \in BOOLEAN, readable \in BOOLEAN :
          /\ fastwr = (fastwrite \/ ~readable)
          /\ read = readable
    /\ lock = NoOne
    /\ seq = 0
    /\ reply = None
    /\ pc = [c \in Callers |-> "idle"]
    /\ call = [c \in Callers |-> NoCall]
    /\ ret = NoRet
    /\ net = {}
    /\ cmds = <<>>
    /\ rx = NoRx

Init ==
    /\ BusInit
    /\ other = NoOther
    /\ slip = NoSlip
    /\ port = NoPort
    /\ host = NoHost
    /\ uart = NoUart

(* ------------------------------ the host ------------------------------- *)
\* "Fast mode requires the ConfigBus host to implement sequence counter echo
\* mode": the host copies the command's sequence byte into its reply.
SeqEcho(eth_frm) == eth_frm[17]

\* The reply a ConfigBus host forms for a command frame: the command's opcode,
\* word count, sequence byte and address echoed, then the read words (reads
\* only) and the status byte. `cut` trailing bytes are missing from a
\* malformed reply.
send_response(eth_frm, rdvals, err, cut) ==
    LET full == Slice(eth_frm, 6, 12) \o mac_addr \o etype_ack
                \o <<eth_frm[15], eth_frm[16], SeqEcho(eth_frm), 0>>
                \o Slice(eth_frm, 18, 22) \o PackWords(rdvals) \o <<err>>
    IN  SubSeq(full, 1, Len(full) - cut)

\* What the host may answer to the command of call a.
HostReplies(a, eth_frm) ==
    { send_response(eth_frm, ws, err, cut) :
        ws \in (IF IsWrite(a.op) THEN {<<>>} ELSE [1..a.nwords -> RdWords]),
        err \in Statuses, cut \in (IF IsWrite(a.op) THEN {0} ELSE Cuts) }

(* ------------------------- the receive callback ------------------------ *)
\* _msg_rcvd: "Ignore anything that doesn't have the right EtherType."
WrongTypeNever(frm) == FALSE
WrongType(frm) ==
    \/ Len(frm) < MinFrameLen
    \/ frm[13] # etype_ack[1]
    \/ frm[14] # etype_ack[2]

\* _msg_rcvd: "In fast-write mode, also filter by sequence count."
SeqFilterNone(fw, s, frm) == FALSE
\* The filter comparing the echoed byte with the counter before its last step.
SeqFilterBehind(fw, s, frm) == fw /\ (s + SeqMod - 1) % SeqMod # frm[17]
SeqFilter(fw, s, frm) == fw /\ s # frm[17]

Verdict(frm) ==
    IF WrongType(frm) THEN "ignored"
    ELSE IF SeqFilter(fastwr, seq, frm) THEN "stale"
    ELSE "stored"

\* self.cv.notify(): wakes one thread waiting on the condition, if any.
Notify(p) ==
    IF \E c \in Callers : p[c] = "waiting"
    THEN LET w == CHOOSE c \in Callers : p[c] = "waiting" IN [p EXCEPT ![w] = "woken"]
    ELSE p

\* The slot and the callers' positions after _msg_rcvd(m.frm).
RcvdReply(m) ==
    IF Verdict(m.frm) = "stored"
    THEN [id |-> m.id, data |-> Slice(m.frm, 14, Len(m.frm))]
    ELSE reply
RcvdPc(m) == IF Verdict(m.frm) = "stored" THEN Notify(pc) ELSE pc

\* What _msg_rcvd has to acquire before it runs: only self.cv, which no
\* thread keeps between two steps. It never asks for the command lock l.
CallbackEntersLocked(l) == l = NoOne
CallbackEnters(l) == TRUE

\* The transport's receive thread hands one frame to the callback, if one is
\* registered (readable sessions only).
msg_rcvd(m) ==
    /\ m \in net
    /\ CallbackEnters(lock)
    /\ net' = net \ {m}
    /\ IF read
       THEN /\ reply' = RcvdReply(m)
            /\ pc' = RcvdPc(m)
            /\ rx' = [id |-> m.id, verdict |-> Verdict(m.frm)]
       ELSE /\ UNCHANGED <<reply, pc>>
            /\ rx' = [id |-> m.id, verdict |-> "nocallback"]
    /\ UNCHANGED <<host, uart, other, slip, port, fastwr, read, lock, seq, call, ret, cmds>>

\* Frames that reach the callback without being a reply of the host: the
\* command itself echoed back by the medium (command EtherType), the same
\* frame under a third EtherType, and a reply truncated below 20 bytes.
Strays(eth_frm) ==
    { eth_frm,
      Slice(eth_frm, 0, 12) \o PackH(ethertype + 2) \o Slice(eth_frm, 14, Len(eth_frm)),
      Slice(send_response(eth_frm, <<>>, 0, 0), 0, MinFrameLen - 1) }

\* The transport hands such a frame to the callback while command c is in
\* flight.
msg_rcvd_stray(c) ==
    /\ read
    /\ CallbackEnters(lock)
    /\ pc[c] \in {"sent", "waiting"}
    /\ \E f \in Strays(call[c].frm) :
          LET m == [id |-> call[c].id, frm |-> f] IN
          /\ reply' = RcvdReply(m)
          /\ pc' = RcvdPc(m)
          /\ rx' = [id |-> m.id, verdict |-> Verdict(f)]
    /\ UNCHANGED <<host, uart, other, slip, port, fastwr, read, lock, seq, call, ret, net, cmds>>

(* ------------------------------ the callers ---------------------------- *)
\* Commands still to be transmitted by calls already started.
Unsent == Cardinality({c \in Callers : pc[c] \in {"acquire", "clear", "xmit"}})

\* A caller enters write_reg, multi_write, read_reg or multi_read.
Call(c) ==
    /\ pc[c] = "idle"
    /\ Len(cmds) + Unsent < MaxCmds
    /\ pc' = [pc EXCEPT ![c] = "acquire"]
    /\ ret' = IF ret.by = c THEN NoRet ELSE ret
    /\ UNCHANGED <<host, uart, other, slip, port, fastwr, read, lock, seq, reply, call, net, cmds, rx>>

\* "with self.lock:" on entry.
LockFreeAlways(l) == TRUE
LockFree(l) == l = NoOne

\* The caller gets the lock; from here on its arguments, one of args, matter.
Acquire(c, args) ==
    /\ pc[c] = "acquire"
    /\ LockFree(lock)
    /\ lock' = c
    /\ \E a \in args : call' = [call EXCEPT ![c] = a]
    /\ pc' = [pc EXCEPT ![c] = "clear"]
    /\ UNCHANGED <<host, uart, other, slip, port, fastwr, read, seq, reply, ret, net, cmds, rx>>

LockAcquire(c) == Acquire(c, CallArgs)

\* _msg_send: "self.reply = None".
SlotKept(r) == r
SlotCleared(r) == None

\* The command is packed with the current sequence counter; _msg_send then
\* empties the slot, before it hands the frame to the transport.
msg_send_clear(c) ==
    /\ pc[c] = "clear"
    /\ call' = [call EXCEPT ![c] = [call[c] EXCEPT !.frm = ethhdr \o Command(call[c], seq)]]
    /\ reply' = SlotCleared(reply)
    /\ pc' = [pc EXCEPT ![c] = "xmit"]
    /\ UNCHANGED <<host, uart, other, slip, port, fastwr, read, lock, seq, ret, net, cmds, rx>>

\* "with self.lock:" on exit, by return or by exception.
WithLockExitLeak(c, kind) == IF kind = "raise" THEN c ELSE NoOne
WithLockExit(c, kind) == NoOne

\* The call of caller c ends with result r, having taken tmp from the slot.
Return(c, r, tmp, s1, waited) ==
    /\ ret' = [by |-> c, op |-> call[c].op, nwords |-> call[c].nwords,
               kind |-> r.kind, val |-> r.val, id |-> call[c].id, took |-> tmp,
               seq0 |-> call[c].seq0, seq1 |-> s1, waited |-> waited]
    /\ lock' = WithLockExit(c, r.kind)
    /\ call' = [call EXCEPT ![c] = NoCall]
    /\ pc' = [pc EXCEPT ![c] = "idle"]

\* The record of a command as it is transmitted.
CmdRec(c) == [seq |-> call[c].frm[17], how |-> "sent"]
Sent(c) == [call EXCEPT ![c] = [call[c] EXCEPT !.id = Len(cmds) + 1, !.seq0 = seq]]

\* ifobj.msg_send raises (a serial port's write fails): nothing is transmitted.
msg_send_raise(c) ==
    /\ pc[c] = "xmit"
    /\ Return(c, [kind |-> "raise", val |-> <<>>], None, seq, FALSE)
    /\ UNCHANGED <<host, uart, other, slip, port, fastwr, read, seq, reply, net, cmds, rx>>

\* ifobj.msg_send transmits the command; the host never answers it.
msg_send_lost(c) ==
    /\ pc[c] = "xmit"
    /\ cmds' = Append(cmds, CmdRec(c))
    /\ call' = Sent(c)
    /\ pc' = [pc EXCEPT ![c] = "sent"]
    /\ UNCHANGED <<host, uart, other, slip, port, fastwr, read, lock, seq, reply, ret, net, rx>>

\* ifobj.msg_send transmits the command; the host's reply is on its way.
msg_send_xmit(c) ==
    /\ pc[c] = "xmit"
    /\ \E f \in HostReplies(call[c], call[c].frm) :
          net' = net \cup {[id |-> Len(cmds) + 1, frm |-> f]}
    /\ cmds' = Append(cmds, CmdRec(c))
    /\ call' = Sent(c)
    /\ pc' = [pc EXCEPT ![c] = "sent"]
    /\ UNCHANGED <<host, uart, other, slip, port, fastwr, read, lock, seq, reply, ret, rx>>

\* ifobj.msg_send transmits the command and the transport calls the receive
\* callback with the reply before msg_send returns (cfgbus_test.py ServerStub).
msg_send_sync(c) ==
    /\ pc[c] = "xmit"
    /\ CallbackEnters(lock)
    /\ read
    /\ \E f \in HostReplies(call[c], call[c].frm) :
          LET m == [id |-> Len(cmds) + 1, frm |-> f] IN
          /\ reply' = RcvdReply(m)
          /\ rx' = [id |-> m.id, verdict |-> Verdict(f)]
          /\ pc' = [RcvdPc(m) EXCEPT ![c] = "sent"]
    /\ cmds' = Append(cmds, CmdRec(c))
    /\ call' = Sent(c)
    /\ UNCHANGED <<host, uart, other, slip, port, fastwr, read, lock, seq, ret, net>>

\* Does the call wait for a reply after sending? Writes: "Wait for reply
\* unless in fast-write mode"; reads: "If this is a readable port, wait".
WaitsAlways(op) == TRUE
Waits(op) == IF IsWrite(op) THEN ~fastwr ELSE read

\* What write_reg and multi_write return for the reply they took.
write_result_true(tmp) == [kind |-> "True", val |-> <<>>]
write_result(tmp) ==
    IF tmp # None THEN [kind |-> "True", val |-> <<>>] ELSE [kind |-> "False", val |-> <<>>]

\* What read_reg returns for the reply it took.
read_reg_result_nostatus(tmp) ==
    IF tmp = None \/ Len(tmp.data) < MinReadLen THEN [kind |-> "None", val |-> <<>>]
    ELSE [kind |-> "word", val |-> <<UnpackL(Slice(tmp.data, 8, 12))>>]
read_reg_result(tmp) ==
    IF tmp = None \/ Len(tmp.data) < MinReadLen THEN [kind |-> "None", val |-> <<>>]
    ELSE LET word   == UnpackL(Slice(tmp.data, 8, 12))
             status == Slice(tmp.data, 12, 13)[1]
         IN  IF status # 0 THEN [kind |-> "None", val |-> <<>>]
             ELSE [kind |-> "word", val |-> <<word>>]

\* What multi_read returns for the reply it took: unpack raises struct.error
\* when the slice does not hold nwords words, and the status index raises
\* IndexError when the reply has no byte there.
multi_read_result(tmp, nwords) ==
    IF tmp = None \/ Len(tmp.data) < MinReadLen THEN [kind |-> "None", val |-> <<>>]
    ELSE LET flg == nwords - 1
             raw == Slice(tmp.data, 8, 12 + 4 * flg)
         IN  IF Len(raw) # 4 * nwords \/ Len(tmp.data) <= 12 + 4 * flg
             THEN [kind |-> "raise", val |-> <<>>]
             ELSE IF tmp.data[12 + 4 * flg + 1] # 0 THEN [kind |-> "None", val |-> <<>>]
             ELSE [kind |-> "words", val |-> UnpackWords(raw)]

Result(a, tmp) ==
    CASE IsWrite(a.op)       -> write_result(tmp)
      [] a.op = "read_reg"   -> read_reg_result(tmp)
      [] a.op = "multi_read" -> multi_read_result(tmp, a.nwords)

\* The sequence counter left as it was.
SameSeq(s) == s

\* The sequence counter after _msg_skip or _msg_wait.
NextSeq(s) == (s + 1) % SeqMod

Ended(id, how) == [cmds EXCEPT ![id] = [cmds[id] EXCEPT !.how = how]]

\* _msg_skip, then the return of the fast write (True) or of the read on a
\* write-only port (None).
msg_skip(c) ==
    /\ pc[c] = "sent"
    /\ ~Waits(call[c].op)
    /\ seq' = NextSeq(seq)
    /\ Return(c, [kind |-> IF IsWrite(call[c].op) THEN "True" ELSE "None", val |-> <<>>],
              None, NextSeq(seq), FALSE)
    /\ cmds' = Ended(call[c].id, IF IsWrite(call[c].op) THEN "fastwrite" ELSE "skipread")
    /\ UNCHANGED <<host, uart, other, slip, port, fastwr, read, reply, net, rx>>

\* The tail of _msg_wait (tmp = self.reply; self.reply = None; seq + 1), then
\* the caller's parsing of tmp and its return.
Take(c) ==
    LET tmp == reply IN
    /\ reply' = None
    /\ seq' = NextSeq(seq)
    /\ Return(c, Result(call[c], tmp), tmp, NextSeq(seq), TRUE)
    /\ cmds' = Ended(call[c].id, IF tmp = None THEN "timeout" ELSE "reply")
    /\ UNCHANGED <<host, uart, other, slip, port, fastwr, read, net, rx>>

\* _msg_wait finds a reply already stored and takes it without waiting.
msg_wait_ready(c) ==
    /\ pc[c] = "sent"
    /\ Waits(call[c].op)
    /\ reply # None
    /\ Take(c)

\* _msg_wait waits on the condition without looking at the slot first.
msg_wait_unchecked(c) ==
    /\ pc[c] = "sent"
    /\ Waits(call[c].op)
    /\ pc' = [pc EXCEPT ![c] = "waiting"]
    /\ UNCHANGED <<host, uart, other, slip, port, fastwr, read, lock, seq, reply, call, ret, net, cmds, rx>>

\* _msg_wait finds the slot empty and waits on the condition.
msg_wait_enter(c) ==
    /\ pc[c] = "sent"
    /\ Waits(call[c].op)
    /\ reply = None
    /\ pc' = [pc EXCEPT ![c] = "waiting"]
    /\ UNCHANGED <<host, uart, other, slip, port, fastwr, read, lock, seq, reply, call, ret, net, cmds, rx>>

\* self.cv.wait() with no timeout: the wait ends only when notified.
msg_wait_forever(c) == FALSE

\* self.cv.wait(timeout) gives up: the timeout expires with no notification.
msg_wait_timeout(c) ==
    /\ pc[c] = "waiting"
    /\ pc' = [pc EXCEPT ![c] = "woken"]
    /\ UNCHANGED <<host, uart, other, slip, port, fastwr, read, lock, seq, reply, call, ret, net, cmds, rx>>

\* cv.wait returns (notified or timed out) holding the condition again.
msg_wait_take(c) ==
    /\ pc[c] = "woken"
    /\ Take(c)

Next ==
    \/ \E c \in Callers : Call(c)
    \/ \E c \in Callers : LockAcquire(c)
    \/ \E c \in Callers : msg_send_clear(c)
    \/ \E c \in Callers : msg_send_raise(c)
    \/ \E c \in Callers : msg_send_lost(c)
    \/ \E c \in Callers : msg_send_xmit(c)
    \/ \E c \in Callers : msg_send_sync(c)
    \/ \E c \in Callers : msg_skip(c)
    \/ \E c \in Callers : msg_wait_ready(c)
    \/ \E c \in Callers : msg_wait_enter(c)
    \/ \E c \in Callers : msg_wait_timeout(c)
    \/ \E c \in Callers : msg_wait_take(c)
    \/ \E m \in net : msg_rcvd(m)

Spec == Init /\ [][Next]_vars

(* A blocking-mode session whose host answers every command exactly once and *)
(* before the caller's timeout: no send fails, no command goes unanswered,  *)
(* no wait times out.                                                        *)
InitReliable == Init /\ ~fastwr /\ read

NextReliable ==
    \/ \E c \in Callers : Call(c)
    \/ \E c \in Callers : LockAcquire(c)
    \/ \E c \in Callers : msg_send_clear(c)
    \/ \E c \in Callers : msg_send_xmit(c)
    \/ \E c \in Callers : msg_send_sync(c)
    \/ \E c \in Callers : msg_wait_ready(c)
    \/ \E c \in Callers : msg_wait_enter(c)
    \/ \E c \in Callers : msg_wait_take(c)
    \/ \E m \in net : msg_rcvd(m)

SpecReliable == InitReliable /\ [][NextReliable]_vars

\* A medium that also hands the callback frames that are no replies; every
\* command is transmitted and answered by the host.
NextStray ==
    \/ \E c \in Callers : Call(c)
    \/ \E c \in Callers : LockAcquire(c)
    \/ \E c \in Callers : msg_send_clear(c)
    \/ \E c \in Callers : msg_send_xmit(c)
    \/ \E c \in Callers : msg_skip(c)
    \/ \E c \in Callers : msg_wait_ready(c)
    \/ \E c \in Callers : msg_wait_enter(c)
    \/ \E c \in Callers : msg_wait_timeout(c)
    \/ \E c \in Callers : msg_wait_take(c)
    \/ \E m \in net : msg_rcvd(m)
    \/ \E c \in Callers : msg_rcvd_stray(c)

SpecStray == Init /\ [][NextStray]_vars

\* A blocking-mode session on a transport whose send returns: commands
\* and replies may be lost, waits may time out.
NextLive ==
    \/ \E c \in Callers : Call(c)
    \/ \E c \in Callers : LockAcquire(c)
    \/ \E c \in Callers : msg_send_clear(c)
    \/ \E c \in Callers : msg_send_lost(c)
    \/ \E c \in Callers : msg_send_xmit(c)
    \/ \E c \in Callers : msg_wait_ready(c)
    \/ \E c \in Callers : msg_wait_enter(c)
    \/ \E c \in Callers : msg_wait_timeout(c)
    \/ \E c \in Callers : msg_wait_take(c)
    \/ \E m \in net : msg_rcvd(m)

\* Scheduling is fair: a caller inside a call keeps running, the wait on the
\* condition ends at its timeout at the latest, and a caller that finds the
\* command lock free again and again eventually gets it.
Fairness ==
    \A c \in Callers :
        /\ SF_vars(LockAcquire(c))
        /\ WF_vars(\/ msg_send_clear(c) \/ msg_send_lost(c) \/ msg_send_xmit(c)
                   \/ msg_wait_ready(c) \/ msg_wait_enter(c)
                   \/ msg_wait_timeout(c) \/ msg_wait_take(c))

SpecLive == InitReliable /\ [][NextLive]_vars /\ Fairness

(* --------------------------- a second session -------------------------- *)
\* "lock = threading.Lock()" is an attribute of class ConfigBus: every
\* ConfigBus object uses that one lock, while seq, reply and cv are made per
\* object in __init__. OtherCaller calls a second object, on its own interface.

\* The caller enters write_reg on the second object.
other_call ==
    /\ other.pc = "idle"
    /\ other.seq < MaxCmds
    /\ other' = [other EXCEPT !.pc = "acquire"]
    /\ UNCHANGED bus
    /\ UNCHANGED <<host, uart, slip, port>>

\* "with self.lock:" on the second object: the lock of the class.
other_acquire ==
    /\ other.pc = "acquire"
    /\ LockFree(lock)
    /\ lock' = OtherCaller
    /\ other' = [other EXCEPT !.pc = "xmit"]
    /\ UNCHANGED <<host, uart, fastwr, read, seq, reply, pc, call, ret, net, cmds, rx, slip, port>>

\* _msg_send on the second object: its command carries its own seq.
other_xmit ==
    /\ other.pc = "xmit"
    /\ other' = [other EXCEPT !.pc = "sent"]
    /\ UNCHANGED bus
    /\ UNCHANGED <<host, uart, slip, port>>

\* _msg_wait on the second object ends (reply or timeout); the call returns.
other_return ==
    /\ other.pc = "sent"
    /\ other' = [pc |-> "idle", seq |-> NextSeq(other.seq)]
    /\ lock' = WithLockExit(OtherCaller, "True")
    /\ UNCHANGED <<host, uart, fastwr, read, seq, reply, pc, call, ret, net, cmds, rx, slip, port>>

\* Two sessions, each answered by its host; calls on the first may time out.
NextTwo ==
    \/ \E c \in Callers : Call(c)
    \/ \E c \in Callers : LockAcquire(c)
    \/ \E c \in Callers : msg_send_clear(c)
    \/ \E c \in Callers : msg_send_xmit(c)
    \/ \E c \in Callers : msg_wait_ready(c)
    \/ \E c \in Callers : msg_wait_enter(c)
    \/ \E c \in Callers : msg_wait_timeout(c)
    \/ \E c \in Callers : msg_wait_take(c)
    \/ \E m \in net : msg_rcvd(m)
    \/ other_call
    \/ other_acquire
    \/ other_xmit
    \/ other_return

SpecTwo == InitReliable /\ [][NextTwo]_vars

(* ------------------------------ SLIP framing --------------------------- *)
SLIP_END     == <<192>>
SLIP_ESC     == <<219>>
SLIP_ESC_END == <<219, 220>>
SLIP_ESC_ESC == <<219, 221>>

\* bytes.replace(old, new): every occurrence of old, found from the left
\* without overlap, is replaced by new.
\* The place of the leftmost occurrence of old in s, or 0 when there is none.
Find(s, old) ==
    LET hits == {i \in 1..(Len(s) - Len(old) + 1) : SubSeq(s, i, i + Len(old) - 1) = old}
    IN  IF hits = {} THEN 0 ELSE CHOOSE i \in hits : \A j \in hits : i <= j

RECURSIVE Replace(_, _, _)
Replace(s, old, new) ==
    LET i == Find(s, old)
    IN  IF i = 0 THEN s
        ELSE SubSeq(s, 1, i - 1) \o new
                 \o Replace(SubSeq(s, i + Len(old), Len(s)), old, new)

\* slipDecode with its last two replacements exchanged.
slipDecodeEscFirst(data) ==
    Replace(Replace(Replace(data, SLIP_END, <<>>), SLIP_ESC_ESC, SLIP_ESC),
            SLIP_ESC_END, SLIP_END)

slipDecode(data) ==
    Replace(Replace(Replace(data, SLIP_END, <<>>), SLIP_ESC_END, SLIP_END),
            SLIP_ESC_ESC, SLIP_ESC)

\* slipEncode without its two replacements.
slipEncodeRaw(data) == data \o SLIP_END

slipEncode(data) ==
    Replace(Replace(data, SLIP_ESC, SLIP_ESC_ESC), SLIP_END, SLIP_ESC_END) \o SLIP_END

\* The byte strings of at most n bytes over the bytes in b.
BytesUpTo(b, n) == UNION {[1..k -> b] : k \in 0..n}

\* A byte string is chosen and handed to slipEncode.
slip_encode ==
    /\ slip.stage = "in"
    /\ slip' = [slip EXCEPT !.stage = "encoded", !.slip_frm = slipEncode(slip.data)]
    /\ UNCHANGED bus
    /\ UNCHANGED <<host, uart, other, port>>

\* The encoded frame is handed to slipDecode.
slip_decode ==
    /\ slip.stage = "encoded"
    /\ slip' = [slip EXCEPT !.stage = "decoded", !.eth_frm = slipDecode(slip.slip_frm)]
    /\ UNCHANGED bus
    /\ UNCHANGED <<host, uart, other, port>>

InitSlip ==
    /\ BusInit /\ ~fastwr /\ read
    /\ host = NoHost /\ uart = NoUart
    /\ other = NoOther
    /\ port = NoPort
    /\ \E p \in BytesUpTo(SlipBytes, MaxLen) : slip = [NoSlip EXCEPT !.stage = "in", !.data = p]

NextSlip == slip_encode \/ slip_decode

SpecSlip == InitSlip /\ [][NextSlip]_vars

(* ------------------------------ the SLIP port -------------------------- *)
\* zlib.crc32: the reflected CRC-32 of IEEE 802.3 (polynomial EDB88320, start
\* FFFFFFFF, result complemented). The 32-bit register is kept as its two
\* 16-bit halves <<high, low>>.
CrcPoly == <<60856, 33568>>

\* a ^ b on n-bit values, bit by bit
RECURSIVE XorBits(_, _, _)
XorBits(a, b, n) == IF n = 0 THEN 0 ELSE ((a + b) % 2) + 2 * XorBits(a \div 2, b \div 2, n - 1)

\* a ^ b for all pairs of 4-bit values: entry 16 * a + b + 1.
RECURSIVE XorTableRange(_, _)
XorTableRange(lo, hi) ==
    IF lo = hi THEN <<XorBits(lo \div 16, lo % 16, 4)>>
    ELSE XorTableRange(lo, (lo + hi) \div 2) \o XorTableRange(((lo + hi) \div 2) + 1, hi)

XorTable == XorTableRange(0, 255)

\* a ^ b on n-bit values (n a multiple of 4), four bits at a time
RECURSIVE Xor(_, _, _)
Xor(a, b, n) ==
    IF n = 0 THEN 0
    ELSE XorTable[16 * (a % 16) + (b % 16) + 1] + 16 * Xor(a \div 16, b \div 16, n - 4)

\* One bit: "crc = (crc >> 1) ^ poly if crc & 1 else crc >> 1".
CrcRound(c) ==
    LET hi == c[1] \div 2
        lo == (c[2] \div 2) + (c[1] % 2) * 32768
    IN  IF c[2] % 2 = 1 THEN <<Xor(hi, CrcPoly[1], 16), Xor(lo, CrcPoly[2], 16)>>
        ELSE <<hi, lo>>

\* The register after eight rounds from the byte b: zlib's table entry for b.
CrcEntry(b) ==
    CrcRound(CrcRound(CrcRound(CrcRound(CrcRound(CrcRound(CrcRound(CrcRound(<<0, b>>))))))))

\* The entries for the bytes lo..hi, in order.
RECURSIVE CrcTableRange(_, _)
CrcTableRange(lo, hi) ==
    IF lo = hi THEN <<CrcEntry(lo)>>
    ELSE CrcTableRange(lo, (lo + hi) \div 2) \o CrcTableRange(((lo + hi) \div 2) + 1, hi)

CrcTable == CrcTableRange(0, 255)

\* One byte: "crc = table[(crc ^ b) & 0xFF] ^ (crc >> 8)", which is
\* "crc ^= b" followed by eight rounds.
CrcByte(c, b) ==
    LET t == CrcTable[Xor(c[2] % 256, b, 8) + 1]
    IN  <<Xor(c[1] \div 256, t[1], 16),
          Xor((c[2] \div 256) + (c[1] % 256) * 256, t[2], 16)>>

RECURSIVE CrcBytes(_, _)
CrcBytes(c, data) ==
    IF data = <<>> THEN c
    ELSE IF Len(data) = 1 THEN CrcByte(c, data[1])
    ELSE LET h == Len(data) \div 2
             d == CrcBytes(c, SubSeq(data, 1, h))
         IN  IF d[1] >= 0 THEN CrcBytes(d, SubSeq(data, h + 1, Len(data)))
             ELSE d  \* d[1] >= 0 always

crc32(data) == LET c == CrcBytes(<<65535, 65535>>, data) IN <<65535 - c[1], 65535 - c[2]>>

\* struct.pack('<L', v): the four bytes of the register, lowest first.
PackBits(c) == <<c[2] % 256, c[2] \div 256, c[1] % 256, c[1] \div 256>>

\* A checksum that does not depend on the data.
ethernet_crc_fixed(pkt) == <<0, 0, 0, 0>>

ethernet_crc(pkt) == PackBits(crc32(pkt))

\* Frames as they are before SLIP encoding: an Ethernet header with its FCS
\* (18 bytes), the same with one trailer byte changed, a frame whose payload
\* holds the END and ESC bytes, with its FCS, and a frame of 17 bytes.
FrameGood    == ethhdr \o <<200, 184, 195, 141>>
FrameBad     == ethhdr \o <<200, 184, 195, 140>>
FrameEscaped == ethhdr \o <<192, 219>> \o <<214, 37, 187, 93>>
FrameShort   == Slice(ethhdr, 0, 13) \o <<56, 77, 223, 196>>
TestFrames   == {FrameGood, FrameBad, FrameEscaped, FrameShort}

\* AsyncSerialPort._rx_loop splits the stream at the delimiter: the callback
\* gets the encoded frame without its END byte.
Segment(eth_frm) == Slice(slipEncode(eth_frm), 0, Len(slipEncode(eth_frm)) - 1)

\* AsyncSLIPPort.msg_rcvd(slip_frm) on a port p: the decoded frame, whether a
\* callback is set, what it is called with (nothing, or one frame), whether a
\* warning is logged.
slip_msg_rcvd(p, slip_frm) ==
    LET eth_frm == slipDecode(slip_frm)
        eth_dat == Slice(eth_frm, 0, Len(eth_frm) - 4)
        rcv_crc == Slice(eth_frm, Len(eth_frm) - 4, Len(eth_frm))
    IN  IF ~p.callback THEN [eth_frm |-> eth_frm, cb |-> p.callback, out |-> <<>>, warned |-> FALSE]
        ELSE IF ~p.eth_fcs THEN [eth_frm |-> eth_frm, cb |-> p.callback, out |-> <<eth_frm>>, warned |-> FALSE]
        ELSE IF Len(eth_frm) >= 18
             THEN IF ethernet_crc(eth_dat) = rcv_crc
                  THEN [eth_frm |-> eth_frm, cb |-> p.callback, out |-> <<eth_dat>>, warned |-> FALSE]
                  ELSE IF p.drop_fcs
                       THEN [eth_frm |-> eth_frm, cb |-> p.callback, out |-> <<>>, warned |-> FALSE]
                       ELSE [eth_frm |-> eth_frm, cb |-> p.callback, out |-> <<eth_dat>>, warned |-> TRUE]
        ELSE [eth_frm |-> eth_frm, cb |-> p.callback, out |-> <<>>, warned |-> FALSE]

\* set_callback(callback)
set_callback ==
    /\ port.open /\ ~port.callback
    /\ port' = [port EXCEPT !.callback = TRUE]
    /\ UNCHANGED bus
    /\ UNCHANGED <<host, uart, other, slip>>

\* The serial port hands one received segment to msg_rcvd.
port_msg_rcvd ==
    /\ port.open
    /\ Len(port.log) < MaxFrames
    /\ \E f \in TestFrames :
          port' = [port EXCEPT !.log = Append(@, slip_msg_rcvd(port, Segment(f)))]
    /\ UNCHANGED bus
    /\ UNCHANGED <<host, uart, other, slip>>

\* AsyncSLIPPort.__init__: no callback yet, the two flags as given.
InitPort ==
    /\ BusInit /\ ~fastwr /\ read
    /\ host = NoHost /\ uart = NoUart
    /\ other = NoOther
    /\ slip = NoSlip
    /\ \E fcs \in BOOLEAN, drop \in BOOLEAN :
          port = [open |-> TRUE, eth_fcs |-> fcs, drop_fcs |-> drop,
                  callback |-> FALSE, log |-> <<>>]

NextPort == set_callback \/ port_msg_rcvd

SpecPort == InitPort /\ [][NextPort]_vars

(* ------------------------------ slipEncodeFCS -------------------------- *)
\* n zero bytes: "len_pad * b'\x00'".
Zeros(n) == [i \in 1..n |-> 0]

\* slipEncodeFCS with the padding appended after the checksum.
slipEncodeFCSPadLast(eth_usr, zeropad) ==
    LET len_pad == IF zeropad /\ Len(eth_usr) < 60 THEN 60 - Len(eth_usr) ELSE 0
    IN  slipEncode(eth_usr \o ethernet_crc(eth_usr) \o Zeros(len_pad))

slipEncodeFCS(eth_usr, zeropad) ==
    LET padded  == IF zeropad /\ Len(eth_usr) < 60
                   THEN eth_usr \o Zeros(60 - Len(eth_usr))
                   ELSE eth_usr
        eth_frm == padded \o ethernet_crc(padded)
    IN  slipEncode(eth_frm)

\* A payload of n bytes; END and ESC bytes are among them.
Payload(n) == [i \in 1..n |-> <<192, 219, 1, 0, 255>>[(i % 5) + 1]]

\* The payload is handed to slipEncodeFCS.
slip_encode_fcs ==
    /\ slip.stage = "in"
    /\ slip' = [slip EXCEPT !.stage = "encoded",
                            !.slip_frm = slipEncodeFCS(slip.data, slip.zeropad)]
    /\ UNCHANGED bus
    /\ UNCHANGED <<host, uart, other, port>>

\* What was sent is decoded again, as AsyncSLIPPort.msg_rcvd begins.
slip_decode_fcs ==
    /\ slip.stage = "encoded"
    /\ slip' = [slip EXCEPT !.stage = "decoded", !.eth_frm = slipDecode(slip.slip_frm)]
    /\ UNCHANGED bus
    /\ UNCHANGED <<host, uart, other, port>>

InitFcs ==
    /\ BusInit /\ ~fastwr /\ read
    /\ host = NoHost /\ uart = NoUart
    /\ other = NoOther
    /\ port = NoPort
    /\ \E n \in 0..MaxPayload, zp \in BOOLEAN :
          slip = [stage |-> "in", data |-> Payload(n), zeropad |-> zp,
                  slip_frm |-> <<>>, eth_frm |-> <<>>]

NextFcs == slip_encode_fcs \/ slip_decode_fcs

SpecFcs == InitFcs /\ [][NextFcs]_vars

(* --------------------------- frames with a bad byte -------------------- *)
\* The sender forms eth_usr + ethernet_crc(eth_usr) (slipEncodeFCS); on the
\* way the byte at position i becomes v; the port, which checks and drops,
\* gets the result.
port_rcvd_corrupt ==
    /\ port.open /\ port.log = <<>>
    /\ \E n \in 14..MaxCrcData :
          LET frm == Payload(n) \o ethernet_crc(Payload(n)) IN
          \E i \in 1..Len(frm), v \in 0..255 :
              /\ v # frm[i]
              /\ port' = [port EXCEPT
                     !.orig = frm,
                     !.log = <<slip_msg_rcvd(port, Segment([frm EXCEPT ![i] = v]))>>]
    /\ UNCHANGED bus
    /\ UNCHANGED <<host, uart, other, slip>>

\* The frame arrives as it was sent.
port_rcvd_intact ==
    /\ port.open /\ port.log = <<>>
    /\ \E n \in 14..MaxCrcData :
          LET frm == Payload(n) \o ethernet_crc(Payload(n)) IN
          port' = [port EXCEPT !.orig = frm, !.log = <<slip_msg_rcvd(port, Segment(frm))>>]
    /\ UNCHANGED bus
    /\ UNCHANGED <<host, uart, other, slip>>

\* An AsyncSLIPPort with eth_fcs and drop_fcs set and a callback registered.
InitCrc ==
    /\ BusInit /\ ~fastwr /\ read
    /\ host = NoHost /\ uart = NoUart
    /\ other = NoOther
    /\ slip = NoSlip
    /\ port = [open |-> TRUE, eth_fcs |-> TRUE, drop_fcs |-> TRUE,
               callback |-> TRUE, log |-> <<>>, orig |-> <<>>]

NextCrc == port_rcvd_corrupt \/ port_rcvd_intact

SpecCrc == InitCrc /\ [][NextCrc]_vars

(* ------------------------- the host of the tests ----------------------- *)
\* cfgbus_test.py: a ConfigBus object on a ServerStub, which handles each
\* command inside msg_send and calls the receive callback before it returns.
\* The arguments of the tests (multi_write to device 1, register 1) and the
\* ends of the address ranges.
StubDevs  == {0, 1, 255}
StubRegs  == {0, 1023}
StubVals  == {1, 65536}
StubMulti == {<<1, 2, 3, 4>>, <<0, 1, 256, 16777216, 5, 6, 7, 8>>}

StubArgs ==
    [op : {"write_reg"}, dev : StubDevs, reg : StubRegs,
     vals : {<<v>> : v \in StubVals}, nwords : {1}, incr : {FALSE}, frm : {<<>>}, id : {NoId}, seq0 : {0}]
    \cup
    [op : {"multi_write"}, dev : {1}, reg : {1},
     vals : StubMulti, nwords : {2}, incr : BOOLEAN, frm : {<<>>}, id : {NoId}, seq0 : {0}]
    \cup
    [op : {"read_reg"}, dev : StubDevs, reg : StubRegs,
     vals : {<<>>}, nwords : {1}, incr : {FALSE}, frm : {<<>>}, id : {NoId}, seq0 : {0}]

\* int.from_bytes(b, 'big'), for a slice of any length.
RECURSIVE from_bytes(_)
from_bytes(b) == IF b = <<>> THEN 0 ELSE 256 * from_bytes(SubSeq(b, 1, Len(b) - 1)) + b[Len(b)]

\* ServerStub.msg_send: "Is this a command packet?"
StubAccepts(eth_frm) ==
    /\ Slice(eth_frm, 0, 6) = mac_addr
    /\ from_bytes(Slice(eth_frm, 12, 14)) = ethertype

\* ServerStub.msg_send: "Parse the command header", and the words of a write.
StubParse(eth_frm) ==
    LET nwords == eth_frm[16] + 1
        adr    == from_bytes(Slice(eth_frm, 18, 22))
    IN  [opcode  |-> eth_frm[15],
         nwords  |-> nwords,
         devaddr |-> adr \div 1024,
         regaddr |-> adr - 1024 * (adr \div 1024),
         wrval   |-> [i \in 1..nwords |->
                         from_bytes(Slice(eth_frm, 22 + (i - 1) * 4, 26 + (i - 1) * 4))]]

\* ServerStub.send_response: the reply handed to the callback.
stub_send_response(eth_frm, p, read_vals) ==
    Slice(eth_frm, 6, 12) \o mac_addr \o PackH(ethertype + 1)
        \o <<p.opcode, p.nwords - 1, 0, 0>> \o PackL(1024 * p.devaddr + p.regaddr)
        \o PackWords(read_vals) \o <<0>>

\* The register file of a host that stores what is written: the word held at
\* a flat address (0 until written), and the file after a write command.
\* Without increment every word goes to the same register; with increment
\* to consecutive ones.
RegAt(regs, adr) ==
    IF \E e \in regs : e[1] = adr THEN (CHOOSE e \in regs : e[1] = adr)[2] ELSE 0

RECURSIVE HostStore(_, _, _, _)
HostStore(regs, adr, incr, words) ==
    IF words = <<>> THEN regs
    ELSE HostStore({e \in regs : e[1] # adr} \cup {<<adr, Head(words)>>},
                   IF incr THEN adr + 1 ELSE adr, incr, Tail(words))

HostRead(regs, adr, incr, nwords) ==
    [i \in 1..nwords |-> RegAt(regs, IF incr THEN adr + i - 1 ELSE adr)]

\* What the callers have written, by the (device, register) pair they named.
RECURSIVE Written(_, _, _, _, _)
Written(t, dev, reg, incr, words) ==
    IF words = <<>> THEN t
    ELSE Written({e \in t : e[1] # <<dev, reg>>} \cup {<<(<<dev, reg>>), Head(words)>>},
                 dev, IF incr THEN reg + 1 ELSE reg, incr, Tail(words))

\* ifobj.msg_send on the stub: the command is parsed, a write is stored, and
\* the reply goes through the receive callback before msg_send returns. The
\* arguments the caller passed are noted beside what the host parsed.
stub_msg_send(c) ==
    /\ pc[c] = "xmit"
    /\ CallbackEnters(lock)
    /\ LET a   == call[c]
           p   == StubParse(a.frm)
           adr == 1024 * p.devaddr + p.regaddr
           wr  == p.opcode \in {OPCODE_WR_INC, OPCODE_WR_RPT}
           rd  == p.opcode \in {OPCODE_RD_INC, OPCODE_RD_RPT}
           inc == p.opcode \in {OPCODE_WR_INC, OPCODE_RD_INC}
           f   == stub_send_response(a.frm, p,
                      IF wr THEN <<>> ELSE HostRead(host.regs, adr, inc, p.nwords))
           m   == [id |-> Len(cmds) + 1, frm |-> f]
       IN  IF StubAccepts(a.frm) /\ (wr \/ rd)
           THEN /\ host' = [rcvd  |-> host.rcvd + 1,
                            wrval |-> IF wr THEN p.wrval ELSE host.wrval,
                            regs  |-> IF wr THEN HostStore(host.regs, adr, inc, p.wrval)
                                      ELSE host.regs,
                            asked |-> <<a.dev, a.reg>>,
                            truth |-> IF IsWrite(a.op)
                                      THEN Written(host.truth, a.dev, a.reg, a.incr, a.vals)
                                      ELSE host.truth]
                /\ IF read
                   THEN /\ reply' = RcvdReply(m)
                        /\ rx' = [id |-> m.id, verdict |-> Verdict(f)]
                        /\ pc' = [RcvdPc(m) EXCEPT ![c] = "sent"]
                   ELSE /\ pc' = [pc EXCEPT ![c] = "sent"]
                        /\ UNCHANGED <<reply, rx>>
           ELSE /\ pc' = [pc EXCEPT ![c] = "sent"]
                /\ UNCHANGED <<host, reply, rx>>
    /\ cmds' = Append(cmds, CmdRec(c))
    /\ call' = Sent(c)
    /\ UNCHANGED <<uart, other, slip, port, fastwr, read, lock, seq, ret, net>>

stub_acquire(c) == Acquire(c, StubArgs)

\* setUpClass: ConfigBus(cls.server, HOST_MACADDR, ethertype=ETYPE_COMMAND).
InitStub ==
    /\ BusInit /\ ~fastwr /\ read
    /\ other = NoOther /\ slip = NoSlip /\ port = NoPort /\ uart = NoUart
    /\ host = [rcvd |-> 0, wrval |-> <<>>, regs |-> {}, asked |-> <<>>, truth |-> {}]

NextStub ==
    \/ \E c \in Callers : Call(c)
    \/ \E c \in Callers : stub_acquire(c)
    \/ \E c \in Callers : msg_send_clear(c)
    \/ \E c \in Callers : stub_msg_send(c)
    \/ \E c \in Callers : msg_wait_ready(c)

SpecStub == InitStub /\ [][NextStub]_vars

(* ----------------------- the serial receive loop ----------------------- *)
\* bytes.split(delim): the pieces of s between the occurrences of delim.
RECURSIVE Split(_, _)
Split(s, delim) ==
    LET i == Find(s, delim)
    IN  IF i = 0 THEN <<s>>
        ELSE <<SubSeq(s, 1, i - 1)>> \o Split(SubSeq(s, i + Len(delim), Len(s)), delim)

\* "for msg in rx_split[0:-1]: if len(msg) > 0: self._callback(msg)": the
\* messages the callback is invoked with, in order.
RECURSIVE Deliver(_)
Deliver(msgs) ==
    IF msgs = <<>> THEN <<>>
    ELSE (IF Len(Head(msgs)) > 0 THEN <<Head(msgs)>> ELSE <<>>) \o Deliver(Tail(msgs))

\* One pass of the "while self._run" loop of _rx_loop on a port whose
\* delimiter is SLIP_END: read appends k bytes of what the wire holds (none
\* when it times out); a buffer with a delimiter in it is split and the
\* callback invoked for each non-empty piece but the last, which becomes the
\* buffer. The callback may raise at its fail-th invocation (0: never): the
\* "except" logs, sleeps, and the loop goes on with the buffer as read.
rx_loop ==
    /\ uart.open
    /\ \E k \in 0..Len(uart.wire) :
          LET rx_buff  == uart.rx_buff \o SubSeq(uart.wire, 1, k)
              wire     == SubSeq(uart.wire, k + 1, Len(uart.wire))
              rx_split == Split(rx_buff, SLIP_END)
              msgs     == Deliver(SubSeq(rx_split, 1, Len(rx_split) - 1))
          IN  IF Find(rx_buff, SLIP_END) = 0
              THEN uart' = [uart EXCEPT !.wire = wire, !.rx_buff = rx_buff]
              ELSE \E fail \in 0..Len(msgs) :
                      /\ fail > 0 => uart.raised < MaxRaises
                      /\ uart' = IF fail = 0
                                 THEN [uart EXCEPT !.wire = wire,
                                                   !.rx_buff = rx_split[Len(rx_split)],
                                                   !.calls = @ \o msgs]
                                 ELSE [uart EXCEPT !.wire = wire,
                                                   !.rx_buff = rx_buff,
                                                   !.calls = @ \o SubSeq(msgs, 1, fail),
                                                   !.raised = @ + 1]
    /\ uart' # uart
    /\ UNCHANGED bus
    /\ UNCHANGED <<host, other, slip, port>>

\* An open port with an empty working buffer, and the bytes that will
\* arrive: frames of ordinary bytes ended by SLIP_END, in any arrangement.
InitRx ==
    /\ BusInit /\ ~fastwr /\ read
    /\ host = NoHost /\ other = NoOther /\ slip = NoSlip /\ port = NoPort
    /\ \E s \in BytesUpTo(StreamBytes, MaxStream) :
          uart = [open |-> TRUE, stream |-> s, wire |-> s, rx_buff |-> <<>>,
                  calls |-> <<>>, raised |-> 0]

NextRx == rx_loop

SpecRx == InitRx /\ [][NextRx]_vars

(* ---------------------- the serial transmit side ----------------------- *)
\* The n-th frame handed to msg_send: two bytes that name it.
Frame(n) == <<n, n>>

\* The threads that call self._port.write: a caller of msg_send and the
\* transmit loop.
Writers == {"send", "loop"}
Idle == [pc |-> "idle", left |-> <<>>]

\* msg_send(data, blocking=False): under _tx_lock, "self._tx_buff += data".
msg_send_buffered ==
    /\ uart.open /\ uart.sends < MaxSends
    /\ uart.send.pc = "idle" /\ uart.tx_lock = "free"
    /\ uart' = [uart EXCEPT !.tx_buff = @ \o Frame(uart.sends + 1), !.sends = @ + 1]
    /\ UNCHANGED bus
    /\ UNCHANGED <<host, other, slip, port>>

\* msg_send(data, blocking=True) enters "with self._tx_lock" and calls
\* self._port.write(data).
msg_send_blocking ==
    /\ uart.open /\ uart.sends < MaxSends
    /\ uart.send.pc = "idle" /\ uart.tx_lock = "free"
    /\ uart' = [uart EXCEPT !.tx_lock = "send", !.sends = @ + 1,
                            !.send = [pc |-> "writing", left |-> Frame(uart.sends + 1)]]
    /\ UNCHANGED bus
    /\ UNCHANGED <<host, other, slip, port>>

\* The write returns, or raises; msg_send leaves the "with" block.
msg_send_return ==
    /\ uart.open
    /\ uart.send.pc = "writing"
    /\ uart' = [uart EXCEPT !.tx_lock = "free", !.send = Idle]
    /\ UNCHANGED bus
    /\ UNCHANGED <<host, other, slip, port>>

\* _tx_loop: "with self._tx_lock: data = self._tx_buff; self._tx_buff = b''",
\* and, the lock released, "if len(data) > 0: ... self._port.write(data)".
\* (With nothing buffered the loop sleeps and polls again.)
tx_loop_grab ==
    /\ uart.open
    /\ uart.loop.pc = "idle" /\ uart.tx_lock = "free"
    /\ uart.tx_buff # <<>>
    /\ uart' = [uart EXCEPT !.tx_buff = <<>>,
                            !.loop = [pc |-> "writing", left |-> uart.tx_buff]]
    /\ UNCHANGED bus
    /\ UNCHANGED <<host, other, slip, port>>

\* The loop's write returns (all bytes, fewer, or by exception); the loop
\* logs and goes round again.
tx_loop_return ==
    /\ uart.open
    /\ uart.loop.pc = "writing"
    /\ uart' = [uart EXCEPT !.loop = Idle]
    /\ UNCHANGED bus
    /\ UNCHANGED <<host, other, slip, port>>

\* self._port.write in thread t puts its next byte on the wire.
port_write(t) ==
    /\ uart.open
    /\ uart[t].pc = "writing" /\ uart[t].left # <<>>
    /\ uart' = [uart EXCEPT ![t].left = Tail(@), !.wire = Append(@, Head(uart[t].left))]
    /\ UNCHANGED bus
    /\ UNCHANGED <<host, other, slip, port>>

\* An open port: nothing buffered, nothing written, both threads at rest.
InitTx ==
    /\ BusInit /\ ~fastwr /\ read
    /\ host = NoHost /\ other = NoOther /\ slip = NoSlip /\ port = NoPort
    /\ uart = [open |-> TRUE, tx_lock |-> "free", tx_buff |-> <<>>, sends |-> 0,
               send |-> Idle, loop |-> Idle, wire |-> <<>>]

NextTx ==
    \/ msg_send_buffered
    \/ msg_send_blocking
    \/ msg_send_return
    \/ tx_loop_grab
    \/ tx_loop_return
    \/ \E t \in Writers : port_write(t)

SpecTx == InitTx /\ [][NextTx]_vars

\* The steps made inside "with self.cv": the callback (_msg_rcvd, also when
\* the transport calls it from inside msg_send), _msg_skip and _msg_wait.
WithCv ==
    \/ \E m \in net : msg_rcvd(m)
    \/ \E c \in Callers :
          \/ msg_rcvd_stray(c)
          \/ msg_send_sync(c)
          \/ msg_skip(c)
          \/ msg_wait_ready(c)
          \/ msg_wait_enter(c)
          \/ msg_wait_timeout(c)
          \/ msg_wait_take(c)

(* ------------------------------- the claims ---------------------------- *)
\* A caller's command is in flight from its transmission until its call resolves.
InFlight(c) == pc[c] \in {"sent", "waiting", "woken"}

\* A call has returned.
Returned == ret.kind # "none"

\* C1: at most one command is in flight on the session at any time: while one
\* caller's command is between transmission and resolution, no other caller
\* has transmitted.
C1_OneInFlight == Cardinality({c \in Callers : InFlight(c)}) <= 1

\* One caller waits for its reply while another waits for the lock.
C1_Witness ==
    \E c, d \in Callers : c # d /\ pc[c] = "waiting" /\ pc[d] = "acquire"

\* C2: on a blocking-mode session whose host answers every command once and
\* in time, every call that returns has taken the reply generated for its own
\* command.
C2_OwnReply == Returned => (ret.took # None /\ ret.took.id = ret.id)

\* A call took its own reply while the other caller was waiting for its own.
C2_Witness ==
    /\ Returned /\ ret.took # None /\ ret.took.id = ret.id
    /\ \E d \in Callers \ {ret.by} : pc[d] = "waiting"

\* The command whose reply the returned call took ended by timeout.
TookAbandoned == ret.took # None /\ cmds[ret.took.id].how = "timeout"

\* C3 as stated: a reply to a command abandoned by timeout is never returned
\* as the result of a later call, in blocking mode as in fire-and-forget mode.
C3_NoLateReply == Returned => ~TookAbandoned

\* C3 as amended: in fire-and-forget mode a reply to a command abandoned by
\* timeout is returned by a later call only if that call's command carries the
\* same sequence byte, which takes a multiple of 256 commands.
C3_NoLateReplyFast ==
    (fastwr /\ Returned /\ TookAbandoned)
        => (ret.id - ret.took.id) % SeqMod = 0

\* Fire-and-forget mode: the reply to the first command, abandoned by
\* timeout, is rejected while the second call waits for its own.
C3_Witness ==
    /\ fastwr
    /\ Len(cmds) = 2 /\ cmds[1].how = "timeout"
    /\ rx = [id |-> 1, verdict |-> "stale"]
    /\ \E c \in Callers : pc[c] = "waiting" /\ call[c].id = 2

\* C4: in fire-and-forget mode a received reply frame whose echoed sequence
\* byte differs from the sequence counter leaves the slot unchanged and wakes
\* no waiting caller.
C4_StaleIgnored ==
    [][\A m \in net :
          (fastwr /\ read /\ ~WrongType(m.frm) /\ m.frm[17] # seq /\ msg_rcvd(m))
              => (reply' = reply /\ pc' = pc)]_vars

\* A reply with another sequence byte has been rejected while a read waits.
C4_Witness ==
    /\ fastwr
    /\ rx.verdict = "stale"
    /\ \E c \in Callers :
          pc[c] = "waiting" /\ call[c].op \in {"read_reg", "multi_read"}

\* The reply the host forms for an accepted command: status 0, nothing missing.
GoodReply(r) ==
    /\ r.took # None /\ r.took.id = r.id
    /\ Len(r.took.data) = 9 + (IF IsWrite(r.op) THEN 0 ELSE 4 * r.nwords)
    /\ r.took.data[Len(r.took.data)] = 0

Failure(r) == r.kind = (IF IsWrite(r.op) THEN "False" ELSE "None")
Success(r) ==
    r.kind = (CASE IsWrite(r.op)        -> "True"
                [] r.op = "read_reg"   -> "word"
                [] r.op = "multi_read" -> "words")

C6_LockReleased ==
    \A c \in Callers : pc[c] \in {"idle", "acquire"} => lock # c

\* multi_read raised while parsing the reply it took, and the lock is free.
C6_Witness ==
    /\ Returned /\ ret.kind = "raise" /\ ret.waited
    /\ lock = NoOne

\* C7: in fire-and-forget mode write_reg and multi_write never wait on the
\* condition; once the command is transmitted they advance the counter by one
\* and return True.
C7_FastWriteNoWait ==
    fastwr =>
        /\ \A c \in Callers :
              IsWrite(call[c].op) => pc[c] \notin {"waiting", "woken"}
        /\ (Returned /\ IsWrite(ret.op) /\ ret.id # NoId)
              => (ret.kind = "True" /\ ~ret.waited
                  /\ ret.seq1 = (ret.seq0 + 1) % SeqMod)

\* A fast write returned True although the host never answered it.
C7_Witness ==
    /\ fastwr /\ read
    /\ Returned /\ ret.op = "write_reg" /\ ret.kind = "True" /\ ret.id = 1
    /\ net = {} /\ rx = NoRx

\* C8: in fire-and-forget mode the reply to a fast write is never returned as
\* the result of the next transaction.
C8_FastReplyDropped ==
    (fastwr /\ Returned /\ ret.id >= 2 /\ cmds[ret.id - 1].how = "fastwrite")
        => (ret.took = None \/ ret.took.id # ret.id - 1)

\* The fast write's reply was stored before the counter advanced, and the next
\* transaction waited and returned.
C8_Witness ==
    /\ fastwr
    /\ Returned /\ ret.id = 2 /\ ret.waited /\ cmds[1].how = "fastwrite"
    /\ rx = [id |-> 1, verdict |-> "stored"]

\* C9: read_reg returns the payload word (bytes 8..11, big-endian) of the reply
\* it took exactly when that reply has at least 13 bytes and byte 12, its
\* status, is 0; otherwise (status set, shorter reply, no reply) it returns
\* None.
C9_ReadResult ==
    (Returned /\ ret.op = "read_reg" /\ ret.waited) =>
        LET d == ret.took.data IN
        IF ret.took # None /\ Len(d) >= 13 /\ d[13] = 0
        THEN /\ ret.kind = "word"
             /\ ret.val = <<d[9] * 16777216 + d[10] * 65536 + d[11] * 256 + d[12]>>
        ELSE ret.kind = "None" /\ ret.val = <<>>

\* read_reg returned the word the host sent.
C9_Witness ==
    /\ Returned /\ ret.op = "read_reg" /\ ret.kind = "word"
    /\ ret.val = <<16909060>> /\ ret.took.id = ret.id

\* C10: write_reg and multi_write return False when the reply they take, the
\* host's reply to their own command, carries a non-zero status byte.
C10_WriteNack ==
    (Returned /\ IsWrite(ret.op) /\ ret.waited
       /\ ret.took # None /\ ret.took.id = ret.id
       /\ Len(ret.took.data) = 9 /\ ret.took.data[9] # 0)
        => ret.kind = "False"

\* C11: multi_read of n words returns None, and does not raise, when the reply
\* it takes has fewer than 9 + 4n bytes (too short for n payload words and a
\* status byte).
C11_ShortReplyNone ==
    (Returned /\ ret.op = "multi_read" /\ ret.waited
       /\ ret.took # None /\ Len(ret.took.data) < 9 + 4 * ret.nwords)
        => ret.kind = "None"

\* C12: the callback stores a frame, or wakes a waiter, only if the frame has
\* at least 20 bytes and its EtherType is the command EtherType plus one; a
\* frame with the command EtherType (the echoed command), another EtherType,
\* or fewer than 20 bytes leaves the slot and every waiter as they were.
C12_OnlyAckStored ==
    [][/\ \A m \in net :
             (msg_rcvd(m) /\ (reply' # reply \/ pc' # pc))
                 => (Len(m.frm) >= 20 /\ m.frm[13] * 256 + m.frm[14] = ethertype + 1)
       /\ \A c \in Callers :
             (/\ msg_rcvd_stray(c)
              /\ \A f \in Strays(call[c].frm) :
                    Len(f) < 20 \/ f[13] * 256 + f[14] # ethertype + 1)
                 => (reply' = reply /\ pc' = pc /\ rx'.verdict = "ignored")]_vars

\* A frame that is no reply was handed to the callback while a caller waits
\* for the reply to that command: the caller still waits, the slot is empty.
C12_Witness ==
    /\ rx.verdict = "ignored"
    /\ reply = None
    /\ \E c \in Callers : pc[c] = "waiting" /\ call[c].id = rx.id

C14_NoDeadlock ==
    /\ \A m \in net : ENABLED msg_rcvd(m)
    /\ \A c \in Callers :
          /\ (pc[c] = "xmit" /\ read) => ENABLED msg_send_sync(c)
          /\ (pc[c] \notin {"idle", "acquire"}) =>
                /\ lock = c
                /\ ENABLED (\/ msg_send_clear(c) \/ msg_send_xmit(c) \/ msg_skip(c)
                            \/ msg_wait_ready(c) \/ msg_wait_enter(c)
                            \/ msg_wait_timeout(c) \/ msg_wait_take(c))
          /\ (pc[c] = "acquire") =>
                (ENABLED LockAcquire(c) \/ pc[lock] \notin {"idle", "acquire"})

\* The callback stored the reply to a caller's command while that caller
\* held the command lock and had not yet reached its wait.
C14_Witness ==
    /\ rx.verdict = "stored"
    /\ \E c \in Callers :
          pc[c] = "sent" /\ lock = c /\ reply.id = call[c].id /\ rx.id = call[c].id

\* C15: a command in flight on one session does not keep a caller of another
\* session from going ahead: whenever that caller asks for its session's
\* command lock while a command of the first session is in flight, it gets it.
C15_SessionsIndependent ==
    ((\E c \in Callers : InFlight(c)) /\ other.pc = "acquire")
        => ENABLED other_acquire

\* C16: every call to write_reg, multi_write, read_reg or multi_read
\* eventually returns (fair scheduling, a transport whose send returns).
C16_CallReturns ==
    \A c \in Callers : (pc[c] # "idle") ~> (pc[c] = "idle")

\* A call that waited for the command lock behind another call has returned
\* after its own wait for a reply ended in a timeout.
C16_Witness ==
    /\ Returned /\ ret.waited /\ ret.took = None
    /\ ret.id = 2 /\ cmds[2].how = "timeout" /\ cmds[1].how = "timeout"
    /\ lock = NoOne

\* C17: the k-th command transmitted on the session carries sequence byte
\* (k-1) mod 256, and every call that transmitted a command has advanced the
\* sequence counter by exactly one, modulo 256, when it returns, whichever
\* way it ends (255 is followed by 0).
C17_SeqPerCommand ==
    /\ \A k \in 1..Len(cmds) : cmds[k].seq = (k - 1) % 256
    /\ (Returned /\ ret.id # NoId) => ret.seq1 = (ret.seq0 + 1) % 256
    /\ \A s \in 0..255 : NextSeq(s) = (IF s = 255 THEN 0 ELSE s + 1)
    /\ (\A c \in Callers : ~InFlight(c)) => seq = Len(cmds) % 256

\* The second command went out with sequence byte 1 after a fast write that
\* skipped its wait, and its call ended on a malformed reply.
C17_Witness ==
    /\ Len(cmds) = 2 /\ cmds[1].how = "fastwrite" /\ cmds[2].seq = 1
    /\ Returned /\ ret.id = 2 /\ ret.kind = "raise" /\ seq = 2

\* C18: for every byte string p, the empty one and those made of the bytes
\* 0xC0, 0xDB, 0xDC and 0xDD included, slipDecode(slipEncode(p)) = p.
C18_RoundTrip ==
    (slip.stage = "decoded") => slip.eth_frm = slip.data

\* The string DB DC C0, which holds both special bytes and what looks like an
\* escape sequence, has been encoded and decoded.
C18_Witness ==
    /\ slip.stage = "decoded" /\ slip.data = <<219, 220, 192>>
    /\ slip.slip_frm = <<219, 221, 220, 219, 220, 192>>

\* C19: slipEncode(p) holds the END byte 0xC0 exactly once, as its last byte,
\* and every 0xDB in it is immediately followed by 0xDC or 0xDD.
C19_EncodedShape ==
    (slip.stage \in {"encoded", "decoded"}) =>
        LET e == slip.slip_frm IN
        /\ Len(e) >= 1 /\ e[Len(e)] = 192
        /\ \A i \in 1..(Len(e) - 1) : e[i] # 192
        /\ \A i \in 1..Len(e) : e[i] = 219 => (i < Len(e) /\ e[i + 1] \in {220, 221})

\* A string with two END bytes and an ESC byte has been encoded.
C19_Witness ==
    /\ slip.stage = "encoded" /\ slip.data = <<192, 219, 192>>
    /\ Len(slip.slip_frm) = 7

\* C20: with FCS checking enabled and a callback set, msg_rcvd hands a decoded
\* frame of at least 18 bytes to the callback without its 4-byte trailer if
\* the trailer is the CRC-32 of the bytes before it; if it is not, the frame
\* is not delivered when drop_fcs is set and is delivered without the trailer
\* when drop_fcs is clear. This holds for every frame, whatever the port
\* did with the frames before it.
C20_FcsPolicy ==
    port.open =>
        \A k \in 1..Len(port.log) :
            LET r    == port.log[k]
                n    == Len(r.eth_frm)
                dat  == SubSeq(r.eth_frm, 1, n - 4)
                good == SubSeq(r.eth_frm, n - 3, n) = ethernet_crc(dat)
            IN  (port.eth_fcs /\ r.cb /\ n >= 18) =>
                   /\ r.out = (IF good \/ ~port.drop_fcs THEN <<dat>> ELSE <<>>)
                   /\ (r.eth_frm \in {FrameGood, FrameEscaped}) => good
                   /\ (r.eth_frm = FrameBad) => ~good

\* A dropping port has dropped a frame whose trailer is wrong and then
\* delivered the next frame, which holds escaped bytes, without its trailer.
C20_Witness ==
    /\ port.open /\ port.eth_fcs /\ port.drop_fcs
    /\ Len(port.log) = 2
    /\ port.log[1].cb /\ port.log[1].eth_frm = FrameBad /\ port.log[1].out = <<>>
    /\ port.log[2].eth_frm = FrameEscaped
    /\ port.log[2].out = <<ethhdr \o <<192, 219>>>>

\* C21: with zeropad set, slipEncodeFCS extends a payload of fewer than 60
\* bytes with zero bytes to exactly 60 bytes and computes the CRC over the
\* padded payload, so the trailer checks against the padded data; with
\* zeropad clear, or a payload of 60 bytes or more, nothing is added.
C21_PadThenFcs ==
    (slip.stage = "decoded") =>
        LET n   == Len(slip.data)
            m   == IF slip.zeropad /\ n < 60 THEN 60 ELSE n
            frm == slip.eth_frm
        IN  /\ Len(frm) = m + 4
            /\ SubSeq(frm, 1, n) = slip.data
            /\ \A i \in (n + 1)..m : frm[i] = 0
            /\ SubSeq(frm, m + 1, m + 4) = ethernet_crc(SubSeq(frm, 1, m))

\* A payload of 59 bytes has been padded by one byte.
C21_Witness ==
    /\ slip.stage = "decoded" /\ slip.zeropad /\ Len(slip.data) = 59
    /\ Len(slip.eth_frm) = 64 /\ slip.eth_frm[60] = 0

\* C22: a frame formed by appending ethernet_crc(data) to data passes the
\* receiver's check, and with the value of any one byte of the data or of
\* the trailer changed it fails the check (the port, set to drop, does not
\* deliver it).
C22_SingleByteDetected ==
    (port.open /\ port.log # <<>>) =>
        LET r == port.log[1]
            n == Len(port.orig)
        IN  /\ Len(r.eth_frm) = n
            /\ Cardinality({i \in 1..n : r.eth_frm[i] # port.orig[i]}) <= 1
            /\ (r.eth_frm = port.orig) => r.out = <<SubSeq(port.orig, 1, n - 4)>>
            /\ (r.eth_frm # port.orig) => r.out = <<>>

\* A frame whose first data byte was changed has been dropped.
C22_Witness ==
    /\ port.open /\ port.log # <<>>
    /\ Len(port.orig) = 18 /\ port.log[1].eth_frm[1] # port.orig[1]
    /\ port.log[1].out = <<>>

\* C23: multi_write(dev, reg, vals) transmits exactly one command; its
\* word-count byte is len(vals) - 1, its opcode 0x3F with increment and 0x2F
\* without, its payload the words of vals in order, and the host receives
\* exactly those words in that order.
C23_MultiWriteCommand ==
    /\ host.rcvd = Len(cmds)
    /\ \A c \in Callers :
          (pc[c] = "sent" /\ call[c].op = "multi_write") =>
              LET a == call[c] IN
              /\ a.id = Len(cmds)
              /\ a.frm[15] = (IF a.incr THEN 63 ELSE 47)
              /\ a.frm[16] = Len(a.vals) - 1
              /\ Len(a.frm) = 22 + 4 * Len(a.vals)
              /\ \A i \in 1..Len(a.vals) :
                    UnpackL(SubSeq(a.frm, 19 + 4 * i, 22 + 4 * i)) = a.vals[i]
              /\ host.wrval = a.vals

\* A multi_write of eight words with increment has reached the host.
C23_Witness ==
    \E c \in Callers :
        /\ pc[c] = "sent" /\ call[c].op = "multi_write" /\ call[c].incr
        /\ Len(call[c].vals) = 8 /\ host.wrval = <<0, 1, 256, 16777216, 5, 6, 7, 8>>

\* C24: against a host that stores each write and acknowledges it, write_reg
\* returns True, and a read_reg(d, r) that follows returns the value last
\* written to (d, r) (0 when nothing was), whatever was written to other
\* pairs in between.
C24_ReadBack ==
    /\ (ret.op = "write_reg") => ret.kind = "True"
    /\ (ret.op = "read_reg" /\ ret.id = host.rcvd) =>
          /\ ret.kind = "word"
          /\ ret.val = <<RegAt(host.truth, host.asked)>>

\* A read of device 255, register 1023 has returned the 65536 written there.
C24_Witness ==
    /\ ret.op = "read_reg" /\ ret.id = host.rcvd
    /\ host.asked = <<255, 1023>> /\ ret.val = <<65536>>

\* C25: on a session created with readable=False no receive callback is
\* registered (nothing is ever stored or notified) and fast-write mode is
\* forced; read_reg and multi_read, unless the transport raises, transmit their
\* command, return None without waiting, and advance the counter by one.
C25_WriteOnly ==
    ~read =>
        /\ fastwr
        /\ reply = None
        /\ rx.verdict \in {"none", "nocallback"}
        /\ \A c \in Callers : pc[c] \notin {"waiting", "woken"}
        /\ (Returned /\ ~IsWrite(ret.op) /\ ret.kind # "raise") =>
              /\ ret.id # NoId /\ cmds[ret.id].how = "skipread"
              /\ cmds[ret.id].seq = ret.seq0
              /\ ret.kind = "None" /\ ~ret.waited /\ ret.took = None
              /\ ret.seq1 = (ret.seq0 + 1) % SeqMod

\* A multi_read on a write-only session was transmitted and returned None;
\* the host's reply found no callback.
C25_Witness ==
    /\ ~read
    /\ Returned /\ ret.op = "multi_read" /\ ret.kind = "None" /\ ret.id = 1
    /\ rx = [id |-> 1, verdict |-> "nocallback"]

\* C26: no wake-up is lost. When a reply has been stored between the
\* transmission of a command and its caller's entry into _msg_wait (also by a
\* callback that ran inside the transport's msg_send), the caller's next step
\* takes that reply without waiting on the condition, and the call succeeds
\* if the reply is the well-formed, acknowledged reply to its command.
C26_NoLostWakeup ==
    [][\A c \in Callers :
          (pc[c] = "sent" /\ Waits(call[c].op) /\ reply # None /\ pc'[c] # pc[c]) =>
              /\ pc'[c] = "idle"
              /\ ret'.by = c /\ ret'.took = reply
              /\ reply' = None
              /\ IsWrite(ret'.op) => ret'.kind = "True"
              /\ GoodReply(ret') => Success(ret')]_vars

\* The host's reply to a read was stored while its caller had transmitted
\* and not yet entered _msg_wait.
C26_Witness ==
    \E c \in Callers :
        /\ pc[c] = "sent" /\ Waits(call[c].op) /\ call[c].op = "read_reg"
        /\ reply # None /\ reply.id = call[c].id
        /\ rx = [id |-> call[c].id, verdict |-> "stored"]

\* C27: a reply that is in the slot when a call clears it at the start of
\* its send is never returned as the result of that call (nor of a later
\* one): the clearing step leaves the slot empty before the command goes to
\* the transport, and the step that ends the call's wait leaves it empty.
C27_ClearedNeverReturned ==
    /\ \A k \in 1..MaxCmds :
          []((\E c \in Callers : pc[c] = "clear" /\ reply # None /\ reply.id = k)
                => [](ret.took = None \/ ret.took.id # k))
    /\ [][\A c \in Callers :
             /\ (pc[c] = "clear" /\ pc'[c] = "xmit") => reply' = None
             /\ (pc[c] \in {"sent", "woken"} /\ Waits(call[c].op) /\ pc'[c] = "idle")
                    => reply' = None]_vars

\* A call is about to clear the slot while the slot holds the reply to the
\* fast write before it.
C27_Witness ==
    \E c \in Callers :
        /\ pc[c] = "clear" /\ reply # None
        /\ cmds[reply.id].how = "fastwrite"

\* C28: in fire-and-forget mode the callback stores a reply only if its
\* echoed sequence byte equals the counter as the callback finds it under
\* the condition; so a call that takes a reply takes one whose command
\* carried the same sequence byte as its own command.
C28_FastSeqMatch ==
    [][fastwr =>
          /\ (reply' # reply /\ reply' # None) =>
                (reply'.data[3] = seq /\ seq' = seq)
          /\ (ret' # ret /\ ret'.took # None) =>
                /\ ret'.took.data[3] = cmds'[ret'.id].seq
                /\ cmds'[ret'.took.id].seq = cmds'[ret'.id].seq]_vars

\* In fire-and-forget mode the second command's call has taken its own
\* reply, and the callback has turned away the reply to the first.
C28_Witness ==
    /\ fastwr
    /\ Returned /\ ret.id = 2 /\ ret.took # None /\ ret.took.id = 2
    /\ rx = [id |-> 1, verdict |-> "stale"]

\* The bytes the receive loop has read so far, and the places of the
\* delimiters among them.
Consumed == SubSeq(uart.stream, 1, Len(uart.stream) - Len(uart.wire))
Ends == {i \in 1..Len(Consumed) : Consumed[i] = 192}

\* The segment that the delimiter at place e ends.
Segment29(e) ==
    LET before == {i \in Ends : i < e}
        from   == IF before = {} THEN 1
                  ELSE (CHOOSE i \in before : \A j \in before : j <= i) + 1
    IN  SubSeq(Consumed, from, e - 1)

\* The delimiters that end a non-empty segment, and the n-th of them.
Full == {e \in Ends : Segment29(e) # <<>>}
Nth(n) == CHOOSE e \in Full : Cardinality({i \in Full : i <= e}) = n

\* C29: of the bytes read so far, in whatever chunks, the callback is
\* invoked for the non-empty segments ended by the delimiter, in stream
\* order and never twice for one (so never for an empty segment, nor for the
\* bytes after the last delimiter); once the working buffer holds no
\* delimiter it has been invoked for every one of them; and the bytes after
\* the last delimiter are kept at the end of the working buffer.
C29_ExactlyOncePerSegment ==
    uart.open =>
        LET rest == SubSeq(Consumed,
                           (IF Ends = {} THEN 0
                            ELSE CHOOSE i \in Ends : \A j \in Ends : j <= i) + 1,
                           Len(Consumed))
        IN  /\ Len(uart.calls) <= Cardinality(Full)
            /\ \A n \in 1..Len(uart.calls) : uart.calls[n] = Segment29(Nth(n))
            /\ (\A i \in 1..Len(uart.rx_buff) : uart.rx_buff[i] # 192)
                  => Len(uart.calls) = Cardinality(Full)
            /\ Len(uart.rx_buff) >= Len(rest)
            /\ SubSeq(uart.rx_buff, Len(uart.rx_buff) - Len(rest) + 1, Len(uart.rx_buff)) = rest

\* C30: writes to the serial port are mutually exclusive: a blocking
\* msg_send and the transmit loop are never inside self._port.write at the
\* same time, and the bytes of one frame are never interleaved on the wire
\* with the bytes of another.
C30_WritesExclusive ==
    uart.open =>
        /\ ~(uart.send.pc = "writing" /\ uart.loop.pc = "writing")
        /\ \A i, j, k \in 1..Len(uart.wire) :
              (i < j /\ j < k /\ uart.wire[i] = uart.wire[k]) => uart.wire[j] = uart.wire[i]

====
